---- MODULE Spec2Model ----
(***************************************************************************)
(* Model of the AWS token lifecycle of cerberus-go-client                  *)
(* (src/auth/aws.go): the AWSAuth struct, its methods GetToken, Refresh,   *)
(* Logout, GetHeaders, IsAuthenticated and the authenticate exchange.      *)
(* One action is one call of a method by a single caller; the service, the *)
(* KMS client and the wall clock are the environment.                      *)
(***************************************************************************)
EXTENDS Integers, Sequences, FiniteSets, TLC

(* ------------------------------ bounds --------------------------------- *)

\* the wall clock runs from 1 to MaxTime
MaxTime == 3
\* lease_duration values the service may put into an envelope: 0..MaxLease
MaxLease == 1
\* seconds a blocking network call may take: 0..MaxDelay
MaxDelay == 1
\* goroutines that share one AWSAuth: 1..NumProcs
NumProcs == 2

(* --------------------------- program constants ------------------------- *)

\* the zero value of time.Time (the expiry field after construction)
ZeroTime == 0
StatusOK == 200
StatusNoContent == 204
StatusUnauthorized == 401
StatusForbidden == 403
StatusInternalServerError == 500

ClientHeader == "CerberusGoClient"

\* error values
ErrNil == "nil"
ErrorUnauthorized == "api.ErrorUnauthorized"
ErrorUnauthenticated == "api.ErrorUnauthenticated"
ErrTransport == "Problem while performing request to Cerberus"
ErrStatus == "Error while trying to authenticate. Got HTTP response code"
ErrParseResponse == "Error while trying to parse response from Cerberus"
ErrAuthData == "Invalid authentication data returned from Cerberus"
ErrDecrypt == "Error while decrypting response"
ErrParseDecrypted == "Error while parsing decrypted response"
ErrLogout == "logout failed"

(* ------------------------------ helpers -------------------------------- *)

Base64Alphabet == {"V", "G", "h", "p", "g", "A"}

\* base64.StdEncoding.DecodeString succeeds: whole quanta of four characters,
\* padding only as the last one or two characters of the last quantum
Base64Valid(s) ==
  /\ Len(s) % 4 = 0
  /\ \A i \in 1..Len(s) :
       \/ s[i] \in Base64Alphabet
       \/ /\ s[i] = "="
          /\ \/ i = Len(s)
             \/ i = Len(s) - 1 /\ s[Len(s)] = "="

\* http.Header.Set: the key now maps to exactly one value
HeaderSet(h, k, v) == [x \in DOMAIN h \cup {k} |-> IF x = k THEN <<v>> ELSE h[x]]

\* http.Header.Del
HeaderDel(h, k) == [x \in DOMAIN h \ {k} |-> h[x]]

(* ----------------------------- environment ----------------------------- *)

\* client_token values of an envelope; "{}" unmarshals to the empty token
Tokens == {"", "a-cool-token", "c3po"}

Statuses == {StatusOK, StatusNoContent, StatusUnauthorized, StatusForbidden,
             StatusInternalServerError}

\* auth_data strings of a response body, as sequences of characters
AuthDataSet ==
  { <<>>,
    <<"V", "G", "h", "p">>,
    <<"V", "A", "=", "=">>,
    <<"V", "G", "h">>,
    <<"V", "=", "=", "=">>,
    <<"V", "G", "!", "p">>,
    <<"V", "A", "=", "=", "V", "G", "h", "p">> }

\* a response body: not JSON at all, or {"auth_data": d}
Bodies == {[json |-> FALSE, auth_data |-> <<>>]}
            \cup {[json |-> TRUE, auth_data |-> d] : d \in AuthDataSet}

\* what cl.Do(req) yields: a transport error or a status with a body; the
\* body of a non-200 answer is one well-formed JSON document
Responses == {[transportOk |-> FALSE, status |-> 0,
               body |-> [json |-> FALSE, auth_data |-> <<>>]]}
               \cup {[transportOk |-> TRUE, status |-> StatusOK, body |-> b] :
                       b \in Bodies}
               \cup {[transportOk |-> TRUE, status |-> s, body |-> b] :
                       s \in Statuses \ {StatusOK},
                       b \in {[json |-> TRUE, auth_data |-> <<"V", "G", "h", "p">>]}}

\* what kmsClient.Decrypt yields: an error, or a plaintext that is either
\* not an envelope or an envelope {client_token, lease_duration}
KMSOutcomes == {[decryptOk |-> FALSE, parseOk |-> FALSE,
                 client_token |-> "", lease_duration |-> 0],
                [decryptOk |-> TRUE, parseOk |-> FALSE,
                 client_token |-> "", lease_duration |-> 0]}
                 \cup {[decryptOk |-> TRUE, parseOk |-> TRUE,
                        client_token |-> t, lease_duration |-> l] :
                         t \in Tokens, l \in 0..MaxLease}

\* the answers of the service and of the KMS client to one exchange: every
\* KMS outcome for a response that carries valid auth_data, a failing and a
\* succeeding KMS client for every other response
Exchanges ==
  {[resp |-> r, kms |-> k] :
     r \in {x \in Responses : x.transportOk /\ x.status = StatusOK /\ x.body.json
                                /\ Base64Valid(x.body.auth_data)},
     k \in KMSOutcomes}
  \cup
  {[resp |-> r, kms |-> k] :
     r \in {x \in Responses : ~(x.transportOk /\ x.status = StatusOK /\ x.body.json
                                 /\ Base64Valid(x.body.auth_data))},
     k \in {[decryptOk |-> FALSE, parseOk |-> FALSE,
             client_token |-> "", lease_duration |-> 0],
            [decryptOk |-> TRUE, parseOk |-> TRUE,
             client_token |-> "a-cool-token", lease_duration |-> MaxLease]}}

\* what the DELETE /v1/auth request yields
LogoutResponses == {[transportOk |-> FALSE, status |-> 0]}
                     \cup {[transportOk |-> TRUE, status |-> s] : s \in Statuses}

Procs == 1..NumProcs

(* ------------------------------- state --------------------------------- *)

VARIABLES
  a,        \* the AWSAuth struct: token, expiry, headers
  now,      \* the wall clock, time.Now()
  everGood, \* some exchange so far got 200, valid auth_data, decrypt, envelope
  last,     \* the most recent call: what it was given, did and returned
  prev,     \* the call before that: whether it was a GetToken, its requests
  gor,      \* the goroutines that call the methods concurrently
  issued,   \* the token/expiry pairs complete authentications have stored
  ctor      \* one call of NewAWSAuth: its arguments, environment and result

vars == <<a, now, everGood, last, prev, gor, issued, ctor>>

\* what a call by the single caller leaves alone
seqFrame == UNCHANGED <<gor, issued, ctor>>

\* the struct NewAWSAuth returns
NewAWSAuth ==
  [token   |-> "",
   expiry  |-> ZeroTime,
   headers |-> [k \in {"X-Cerberus-Client", "Content-Type"} |->
                  IF k = "X-Cerberus-Client" THEN <<ClientHeader>>
                  ELSE <<"application/json">>]]

(* ------------------------------ methods -------------------------------- *)

\* IsAuthenticated with an inclusive comparison, !time.Now().After(a.expiry)
IsAuthenticated_Inclusive(s, t) == s.token # "" /\ t <= s.expiry

\* len(a.token) > 0 && time.Now().Before(a.expiry)
IsAuthenticated(s, t) == s.token # "" /\ t < s.expiry

\* authenticate accepting every 2xx status instead of 200 only
authenticate_Accept2xx(s, resp, kms, t) ==
  IF ~resp.transportOk
    THEN [err |-> ErrTransport, s |-> s, httpCalls |-> 1, decryptCalls |-> 0]
  ELSE IF resp.status = StatusUnauthorized \/ resp.status = StatusForbidden
    THEN [err |-> ErrorUnauthorized, s |-> s, httpCalls |-> 1, decryptCalls |-> 0]
  ELSE IF resp.status < 200 \/ resp.status >= 300
    THEN [err |-> ErrStatus, s |-> s, httpCalls |-> 1, decryptCalls |-> 0]
  ELSE IF ~resp.body.json
    THEN [err |-> ErrParseResponse, s |-> s, httpCalls |-> 1, decryptCalls |-> 0]
  ELSE IF ~Base64Valid(resp.body.auth_data)
    THEN [err |-> ErrAuthData, s |-> s, httpCalls |-> 1, decryptCalls |-> 0]
  ELSE IF ~kms.decryptOk
    THEN [err |-> ErrDecrypt, s |-> s, httpCalls |-> 1, decryptCalls |-> 1]
  ELSE IF ~kms.parseOk
    THEN [err |-> ErrParseDecrypted, s |-> s, httpCalls |-> 1, decryptCalls |-> 1]
  ELSE [err |-> ErrNil,
        s |-> [token   |-> kms.client_token,
               expiry  |-> t + kms.lease_duration,
               headers |-> HeaderSet(s.headers, "X-Vault-Token", kms.client_token)],
        httpCalls |-> 1, decryptCalls |-> 1]

\* authenticate assigning token, header and expiry from the zero-valued
\* response before the parse error of the plaintext is looked at
authenticate_WriteBeforeParseCheck(s, resp, kms, t) ==
  IF ~resp.transportOk
    THEN [err |-> ErrTransport, s |-> s, httpCalls |-> 1, decryptCalls |-> 0]
  ELSE IF resp.status = StatusUnauthorized \/ resp.status = StatusForbidden
    THEN [err |-> ErrorUnauthorized, s |-> s, httpCalls |-> 1, decryptCalls |-> 0]
  ELSE IF resp.status # StatusOK
    THEN [err |-> ErrStatus, s |-> s, httpCalls |-> 1, decryptCalls |-> 0]
  ELSE IF ~resp.body.json
    THEN [err |-> ErrParseResponse, s |-> s, httpCalls |-> 1, decryptCalls |-> 0]
  ELSE IF ~Base64Valid(resp.body.auth_data)
    THEN [err |-> ErrAuthData, s |-> s, httpCalls |-> 1, decryptCalls |-> 0]
  ELSE IF ~kms.decryptOk
    THEN [err |-> ErrDecrypt, s |-> s, httpCalls |-> 1, decryptCalls |-> 1]
  ELSE [err |-> IF kms.parseOk THEN ErrNil ELSE ErrParseDecrypted,
        s |-> [token   |-> kms.client_token,
               expiry  |-> t + kms.lease_duration,
               headers |-> HeaderSet(s.headers, "X-Vault-Token", kms.client_token)],
        httpCalls |-> 1, decryptCalls |-> 1]

\* authenticate mapping only 401, not 403, to api.ErrorUnauthorized
authenticate_Only401(s, resp, kms, t) ==
  IF ~resp.transportOk
    THEN [err |-> ErrTransport, s |-> s, httpCalls |-> 1, decryptCalls |-> 0]
  ELSE IF resp.status = StatusUnauthorized
    THEN [err |-> ErrorUnauthorized, s |-> s, httpCalls |-> 1, decryptCalls |-> 0]
  ELSE IF resp.status # StatusOK
    THEN [err |-> ErrStatus, s |-> s, httpCalls |-> 1, decryptCalls |-> 0]
  ELSE IF ~resp.body.json
    THEN [err |-> ErrParseResponse, s |-> s, httpCalls |-> 1, decryptCalls |-> 0]
  ELSE IF ~Base64Valid(resp.body.auth_data)
    THEN [err |-> ErrAuthData, s |-> s, httpCalls |-> 1, decryptCalls |-> 0]
  ELSE IF ~kms.decryptOk
    THEN [err |-> ErrDecrypt, s |-> s, httpCalls |-> 1, decryptCalls |-> 1]
  ELSE IF ~kms.parseOk
    THEN [err |-> ErrParseDecrypted, s |-> s, httpCalls |-> 1, decryptCalls |-> 1]
  ELSE [err |-> ErrNil,
        s |-> [token   |-> kms.client_token,
               expiry  |-> t + kms.lease_duration,
               headers |-> HeaderSet(s.headers, "X-Vault-Token", kms.client_token)],
        httpCalls |-> 1, decryptCalls |-> 1]

\* authenticate sending the request a second time after a transport error
authenticate_Retry(s, resp, kms, t) ==
  IF ~resp.transportOk
    THEN [err |-> ErrTransport, s |-> s, httpCalls |-> 2, decryptCalls |-> 0]
  ELSE IF resp.status = StatusUnauthorized \/ resp.status = StatusForbidden
    THEN [err |-> ErrorUnauthorized, s |-> s, httpCalls |-> 1, decryptCalls |-> 0]
  ELSE IF resp.status # StatusOK
    THEN [err |-> ErrStatus, s |-> s, httpCalls |-> 1, decryptCalls |-> 0]
  ELSE IF ~resp.body.json
    THEN [err |-> ErrParseResponse, s |-> s, httpCalls |-> 1, decryptCalls |-> 0]
  ELSE IF ~Base64Valid(resp.body.auth_data)
    THEN [err |-> ErrAuthData, s |-> s, httpCalls |-> 1, decryptCalls |-> 0]
  ELSE IF ~kms.decryptOk
    THEN [err |-> ErrDecrypt, s |-> s, httpCalls |-> 1, decryptCalls |-> 1]
  ELSE IF ~kms.parseOk
    THEN [err |-> ErrParseDecrypted, s |-> s, httpCalls |-> 1, decryptCalls |-> 1]
  ELSE [err |-> ErrNil,
        s |-> [token   |-> kms.client_token,
               expiry  |-> t + kms.lease_duration,
               headers |-> HeaderSet(s.headers, "X-Vault-Token", kms.client_token)],
        httpCalls |-> 1, decryptCalls |-> 1]

\* authenticate adding the lease as nanoseconds, time.Duration(r.Duration)
\* without "* time.Second": on the clock of whole seconds expiry is the time
\* of the update
authenticate_LeaseInNanoseconds(s, resp, kms, t) ==
  IF ~resp.transportOk
    THEN [err |-> ErrTransport, s |-> s, httpCalls |-> 1, decryptCalls |-> 0]
  ELSE IF resp.status = StatusUnauthorized \/ resp.status = StatusForbidden
    THEN [err |-> ErrorUnauthorized, s |-> s, httpCalls |-> 1, decryptCalls |-> 0]
  ELSE IF resp.status # StatusOK
    THEN [err |-> ErrStatus, s |-> s, httpCalls |-> 1, decryptCalls |-> 0]
  ELSE IF ~resp.body.json
    THEN [err |-> ErrParseResponse, s |-> s, httpCalls |-> 1, decryptCalls |-> 0]
  ELSE IF ~Base64Valid(resp.body.auth_data)
    THEN [err |-> ErrAuthData, s |-> s, httpCalls |-> 1, decryptCalls |-> 0]
  ELSE IF ~kms.decryptOk
    THEN [err |-> ErrDecrypt, s |-> s, httpCalls |-> 1, decryptCalls |-> 1]
  ELSE IF ~kms.parseOk
    THEN [err |-> ErrParseDecrypted, s |-> s, httpCalls |-> 1, decryptCalls |-> 1]
  ELSE [err |-> ErrNil,
        s |-> [token   |-> kms.client_token,
               expiry  |-> t,
               headers |-> HeaderSet(s.headers, "X-Vault-Token", kms.client_token)],
        httpCalls |-> 1, decryptCalls |-> 1]

\* one run of authenticate: s is the struct, resp and kms what the service
\* and the KMS client answer, t the clock when the state is written.
\* Yields the error, the struct afterwards and the calls that were made.
authenticate(s, resp, kms, t) ==
  IF ~resp.transportOk
    THEN [err |-> ErrTransport, s |-> s, httpCalls |-> 1, decryptCalls |-> 0]
  ELSE IF resp.status = StatusUnauthorized \/ resp.status = StatusForbidden
    THEN [err |-> ErrorUnauthorized, s |-> s, httpCalls |-> 1, decryptCalls |-> 0]
  ELSE IF resp.status # StatusOK
    THEN [err |-> ErrStatus, s |-> s, httpCalls |-> 1, decryptCalls |-> 0]
  ELSE IF ~resp.body.json
    THEN [err |-> ErrParseResponse, s |-> s, httpCalls |-> 1, decryptCalls |-> 0]
  ELSE IF ~Base64Valid(resp.body.auth_data)
    THEN [err |-> ErrAuthData, s |-> s, httpCalls |-> 1, decryptCalls |-> 0]
  ELSE IF ~kms.decryptOk
    THEN [err |-> ErrDecrypt, s |-> s, httpCalls |-> 1, decryptCalls |-> 1]
  ELSE IF ~kms.parseOk
    THEN [err |-> ErrParseDecrypted, s |-> s, httpCalls |-> 1, decryptCalls |-> 1]
  ELSE [err |-> ErrNil,
        s |-> [token   |-> kms.client_token,
               expiry  |-> t + kms.lease_duration,
               headers |-> HeaderSet(s.headers, "X-Vault-Token", kms.client_token)],
        httpCalls |-> 1, decryptCalls |-> 1]

\* the DELETE /v1/auth round trip of the shared session protocol
sessionLogout(resp) ==
  IF ~resp.transportOk THEN ErrLogout
  ELSE IF resp.status # StatusNoContent THEN ErrLogout
  ELSE ErrNil

\* GetToken without the liveness check: every call authenticates
GetTokenResult_NoCache(s, resp, kms, t0, t1) ==
  LET r == authenticate(s, resp, kms, t1)
  IN [err |-> r.err, s |-> r.s, tok |-> r.s.token,
      httpCalls |-> r.httpCalls, decryptCalls |-> r.decryptCalls]

\* GetToken computing the expiry from the clock read before the exchange
GetTokenResult_StaleClock(s, resp, kms, t0, t1) ==
  IF IsAuthenticated(s, t0)
    THEN [err |-> ErrNil, s |-> s, tok |-> s.token,
          httpCalls |-> 0, decryptCalls |-> 0]
  ELSE LET r == authenticate(s, resp, kms, t0)
       IN [err |-> r.err, s |-> r.s, tok |-> r.s.token,
           httpCalls |-> r.httpCalls, decryptCalls |-> r.decryptCalls]

\* GetToken taking any non-empty token for live, expired or not
GetTokenResult_IgnoreExpiry(s, resp, kms, t0, t1) ==
  IF s.token # ""
    THEN [err |-> ErrNil, s |-> s, tok |-> s.token,
          httpCalls |-> 0, decryptCalls |-> 0]
  ELSE LET r == authenticate(s, resp, kms, t1)
       IN [err |-> r.err, s |-> r.s, tok |-> r.s.token,
           httpCalls |-> r.httpCalls, decryptCalls |-> r.decryptCalls]

\* GetToken: the cached token when live, else one authenticate
GetTokenResult(s, resp, kms, t0, t1) ==
  IF IsAuthenticated(s, t0)
    THEN [err |-> ErrNil, s |-> s, tok |-> s.token,
          httpCalls |-> 0, decryptCalls |-> 0]
  ELSE LET r == authenticate(s, resp, kms, t1)
       IN [err |-> r.err, s |-> r.s, tok |-> r.s.token,
           httpCalls |-> r.httpCalls, decryptCalls |-> r.decryptCalls]

\* Refresh with the liveness guard in front of authenticate
RefreshResult_Guarded(s, resp, kms, t0, t1) ==
  IF ~IsAuthenticated(s, t0)
    THEN [err |-> ErrorUnauthenticated, s |-> s, httpCalls |-> 0, decryptCalls |-> 0]
  ELSE authenticate(s, resp, kms, t1)

\* Refresh: an alias of authenticate
RefreshResult(s, resp, kms, t0, t1) == authenticate(s, resp, kms, t1)

\* Logout resetting the token but leaving the X-Vault-Token header
LogoutResult_KeepHeader(s, resp) ==
  LET e == sessionLogout(resp)
  IN IF e # ErrNil
       THEN [err |-> e, s |-> s, logoutCalls |-> 1]
     ELSE [err |-> ErrNil, s |-> [s EXCEPT !.token = ""], logoutCalls |-> 1]

\* Logout replacing the header map by an empty one
LogoutResult_ResetHeaders(s, resp) ==
  LET e == sessionLogout(resp)
  IN IF e # ErrNil
       THEN [err |-> e, s |-> s, logoutCalls |-> 1]
     ELSE [err |-> ErrNil,
           s |-> [s EXCEPT !.token = "", !.headers = <<>>],
           logoutCalls |-> 1]

\* Logout: the session logout, then token and header are reset
LogoutResult(s, resp) ==
  LET e == sessionLogout(resp)
  IN IF e # ErrNil
       THEN [err |-> e, s |-> s, logoutCalls |-> 1]
     ELSE [err |-> ErrNil,
           s |-> [s EXCEPT !.token = "",
                           !.headers = HeaderDel(s.headers, "X-Vault-Token")],
           logoutCalls |-> 1]

\* GetHeaders with the liveness guard: no headers unless authenticated
GetHeadersResult_Guarded(s, t) ==
  IF ~IsAuthenticated(s, t)
    THEN [err |-> ErrorUnauthenticated, hdrs |-> <<>>]
  ELSE [err |-> ErrNil, hdrs |-> s.headers]

\* GetHeaders: the header map, never an error
GetHeadersResult(s, t) == [err |-> ErrNil, hdrs |-> s.headers]

(* --------------------------- the call record --------------------------- *)

\* the exchange the environment offers is good in every step
EnvGood(resp, kms) ==
  /\ resp.transportOk
  /\ resp.status = 200
  /\ resp.body.json
  /\ Base64Valid(resp.body.auth_data)
  /\ kms.decryptOk
  /\ kms.parseOk

\* the response carries status 200 and auth_data that JSON- and
\* base64-decodes
DataGood(resp) ==
  /\ resp.transportOk
  /\ resp.status = 200
  /\ resp.body.json
  /\ Base64Valid(resp.body.auth_data)

NoCall ==
  [op |-> "none", err |-> ErrNil, tok |-> "", ok |-> FALSE,
   hdrs |-> NewAWSAuth.headers, pre |-> NewAWSAuth, start |-> 0, end |-> 0,
   httpCalls |-> 0, decryptCalls |-> 0, logoutCalls |-> 0,
   status |-> 0, good |-> FALSE, client_token |-> "", lease_duration |-> 0,
   preGood |-> FALSE, dataOk |-> FALSE]

\* a goroutine that is in no call
Idle == [pc |-> "idle", op |-> "none", client_token |-> "", lease_duration |-> 0,
         seen |-> [token |-> "", expiry |-> ZeroTime, vault |-> <<>>]]

\* no call of NewAWSAuth is modelled
NoCtor == [pc |-> "none"]

Init ==
  /\ a = NewAWSAuth
  /\ now = 1
  /\ everGood = FALSE
  /\ last = NoCall
  /\ prev = [op |-> "other", httpCalls |-> 0]
  /\ gor = [p \in Procs |-> Idle]
  /\ issued = {}
  /\ ctor = NoCtor

Remember ==
  prev' = IF last.op = "GetToken"
            THEN [op |-> "GetToken", httpCalls |-> last.httpCalls]
          ELSE [op |-> "other", httpCalls |-> 0]

(* ------------------------------ actions -------------------------------- *)

\* time passes between two calls
Tick ==
  /\ now < MaxTime
  /\ now' = now + 1
  /\ UNCHANGED <<a, everGood, last, prev>>
  /\ seqFrame

GetToken ==
  \E x \in Exchanges, d \in 0..MaxDelay :
    LET resp == x.resp
        kms == x.kms
        r == GetTokenResult(a, resp, kms, now, now + d)
        t1 == IF r.httpCalls = 0 THEN now ELSE now + d
        g == r.httpCalls = 1 /\ EnvGood(resp, kms)
    IN /\ t1 <= MaxTime
       /\ a' = r.s
       /\ now' = t1
       /\ everGood' = (everGood \/ g)
       /\ last' = [NoCall EXCEPT
                     !.op = "GetToken", !.err = r.err, !.tok = r.tok,
                     !.pre = a, !.start = now, !.end = t1,
                     !.httpCalls = r.httpCalls, !.decryptCalls = r.decryptCalls,
                     !.status = IF r.httpCalls = 1 THEN resp.status ELSE 0,
                     !.good = g,
                     !.dataOk = r.httpCalls = 1 /\ DataGood(resp),
                     !.client_token = IF g THEN kms.client_token ELSE "",
                     !.lease_duration = IF g THEN kms.lease_duration ELSE 0,
                     !.preGood = everGood]
       /\ Remember
       /\ seqFrame

Refresh ==
  \E x \in Exchanges, d \in 0..MaxDelay :
    LET resp == x.resp
        kms == x.kms
        r == RefreshResult(a, resp, kms, now, now + d)
        t1 == IF r.httpCalls = 0 THEN now ELSE now + d
        g == r.httpCalls = 1 /\ EnvGood(resp, kms)
    IN /\ t1 <= MaxTime
       /\ a' = r.s
       /\ now' = t1
       /\ everGood' = (everGood \/ g)
       /\ last' = [NoCall EXCEPT
                     !.op = "Refresh", !.err = r.err,
                     !.pre = a, !.start = now, !.end = t1,
                     !.httpCalls = r.httpCalls, !.decryptCalls = r.decryptCalls,
                     !.status = IF r.httpCalls = 1 THEN resp.status ELSE 0,
                     !.good = g,
                     !.dataOk = r.httpCalls = 1 /\ DataGood(resp),
                     !.client_token = IF g THEN kms.client_token ELSE "",
                     !.lease_duration = IF g THEN kms.lease_duration ELSE 0,
                     !.preGood = everGood]
       /\ Remember
       /\ seqFrame

Logout ==
  \E resp \in LogoutResponses, d \in 0..MaxDelay :
    LET r == LogoutResult(a, resp)
        t1 == IF r.logoutCalls = 0 THEN now ELSE now + d
    IN /\ t1 <= MaxTime
       /\ a' = r.s
       /\ now' = t1
       /\ last' = [NoCall EXCEPT
                     !.op = "Logout", !.err = r.err,
                     !.pre = a, !.start = now, !.end = t1,
                     !.logoutCalls = r.logoutCalls,
                     !.status = IF r.logoutCalls = 1 THEN resp.status ELSE 0,
                     !.preGood = everGood]
       /\ Remember
       /\ seqFrame
       /\ UNCHANGED everGood

GetHeaders ==
  LET r == GetHeadersResult(a, now)
  IN /\ last' = [NoCall EXCEPT
                   !.op = "GetHeaders", !.err = r.err, !.hdrs = r.hdrs,
                   !.pre = a, !.start = now, !.end = now,
                   !.preGood = everGood]
     /\ Remember
     /\ UNCHANGED <<a, now, everGood>>
     /\ seqFrame

IsAuthenticatedCall ==
  /\ last' = [NoCall EXCEPT
                !.op = "IsAuthenticated", !.ok = IsAuthenticated(a, now),
                !.pre = a, !.start = now, !.end = now,
                !.preGood = everGood]
  /\ Remember
  /\ UNCHANGED <<a, now, everGood>>
  /\ seqFrame

Next ==
  \/ Tick
  \/ GetToken
  \/ Refresh
  \/ Logout
  \/ GetHeaders
  \/ IsAuthenticatedCall

Spec == Init /\ [][Next]_vars

TypeOK ==
  /\ a.token \in Tokens
  /\ a.expiry \in 0..(MaxTime + MaxLease)
  /\ now \in 1..MaxTime
  /\ everGood \in BOOLEAN

(* ------------------------ concurrent callers --------------------------- *)
(* The same methods called from NumProcs goroutines. AWSAuth has no lock,  *)
(* so a call is a sequence of steps on the shared struct: the liveness     *)
(* check, the blocking request, and one step per field assignment.         *)

\* what a step of a goroutine leaves alone
concFrame == UNCHANGED <<now, everGood, last, prev, ctor>>

\* the exchanges that fail, and those that yield one of two envelopes with
\* different non-empty tokens and different leases
ConcExchanges ==
  {x \in Exchanges :
     (x.kms.decryptOk /\ x.kms.parseOk) =>
       [token |-> x.kms.client_token, lease |-> x.kms.lease_duration]
         \in {[token |-> "a-cool-token", lease |-> MaxLease],
              [token |-> "c3po", lease |-> 0]}}

\* the X-Vault-Token values of a header map, <<>> when the key is absent
Vault(h) == IF "X-Vault-Token" \in DOMAIN h THEN h["X-Vault-Token"] ELSE <<>>

\* GetToken, aws.go:117-120: the cached token when live, else authenticate
StartGetToken(p) ==
  /\ gor[p].pc = "idle"
  /\ IF IsAuthenticated(a, now)
       THEN gor' = [gor EXCEPT ![p] = [Idle EXCEPT
                      !.op = "GetToken",
                      !.seen = [token |-> a.token, expiry |-> a.expiry,
                                vault |-> Vault(a.headers)]]]
       ELSE gor' = [gor EXCEPT ![p] = [Idle EXCEPT
                      !.op = "GetToken", !.pc = "request"]]
  /\ UNCHANGED <<a, issued>>
  /\ concFrame

\* Refresh, aws.go:207: authenticate without a check
StartRefresh(p) ==
  /\ gor[p].pc = "idle"
  /\ gor' = [gor EXCEPT ![p] = [Idle EXCEPT
               !.op = "Refresh", !.pc = "request"]]
  /\ UNCHANGED <<a, issued>>
  /\ concFrame

\* authenticate, aws.go:143-180: the request, the checks, the decrypt call
DoRequest(p) ==
  /\ gor[p].pc = "request"
  /\ \E x \in ConcExchanges :
       LET r == authenticate(a, x.resp, x.kms, now)
       IN gor' = [gor EXCEPT ![p] =
                    IF r.err # ErrNil
                      THEN [@ EXCEPT !.pc = "idle"]
                    ELSE [@ EXCEPT !.pc = "store_token",
                                   !.client_token = x.kms.client_token,
                                   !.lease_duration = x.kms.lease_duration]]
  /\ UNCHANGED <<a, issued>>
  /\ concFrame

\* authenticate, aws.go:181: a.token = r.Token
StoreToken(p) ==
  /\ gor[p].pc = "store_token"
  /\ a' = [a EXCEPT !.token = gor[p].client_token]
  /\ gor' = [gor EXCEPT ![p].pc = "store_header"]
  /\ UNCHANGED issued
  /\ concFrame

\* authenticate, aws.go:183: a.headers.Set("X-Vault-Token", r.Token)
StoreHeader(p) ==
  /\ gor[p].pc = "store_header"
  /\ a' = [a EXCEPT !.headers = HeaderSet(a.headers, "X-Vault-Token",
                                          gor[p].client_token)]
  /\ gor' = [gor EXCEPT ![p].pc = "store_expiry"]
  /\ UNCHANGED issued
  /\ concFrame

\* authenticate, aws.go:184: a.expiry = time.Now().Add(...)
StoreExpiry(p) ==
  /\ gor[p].pc = "store_expiry"
  /\ a' = [a EXCEPT !.expiry = now + gor[p].lease_duration]
  /\ issued' = issued \cup {[token |-> gor[p].client_token,
                             expiry |-> now + gor[p].lease_duration]}
  /\ gor' = [gor EXCEPT ![p] = [Idle EXCEPT !.op = gor[p].op]]
  /\ concFrame

\* Logout, aws.go:217: the DELETE request is sent
StartLogout(p) ==
  /\ gor[p].pc = "idle"
  /\ gor' = [gor EXCEPT ![p] = [Idle EXCEPT
               !.op = "Logout", !.pc = "logout_request"]]
  /\ UNCHANGED <<a, issued>>
  /\ concFrame

\* Logout, aws.go:217-219: the answer; an error ends the call
DoLogoutRequest(p) ==
  /\ gor[p].pc = "logout_request"
  /\ \E resp \in LogoutResponses :
       gor' = [gor EXCEPT ![p].pc =
                 IF sessionLogout(resp) # ErrNil THEN "idle" ELSE "reset_token"]
  /\ UNCHANGED <<a, issued>>
  /\ concFrame

\* Logout, aws.go:221: a.token = ""
ResetToken(p) ==
  /\ gor[p].pc = "reset_token"
  /\ a' = [a EXCEPT !.token = ""]
  /\ gor' = [gor EXCEPT ![p].pc = "reset_header"]
  /\ UNCHANGED issued
  /\ concFrame

\* Logout, aws.go:222: a.headers.Del("X-Vault-Token")
ResetHeader(p) ==
  /\ gor[p].pc = "reset_header"
  /\ a' = [a EXCEPT !.headers = HeaderDel(a.headers, "X-Vault-Token")]
  /\ gor' = [gor EXCEPT ![p].pc = "idle"]
  /\ UNCHANGED issued
  /\ concFrame

\* a goroutine reads token, expiry and session header (IsAuthenticated,
\* GetToken and GetHeaders read these fields)
Observe(p) ==
  /\ gor[p].pc = "idle"
  /\ gor' = [gor EXCEPT ![p] = [Idle EXCEPT
               !.op = "Observe",
               !.seen = [token |-> a.token, expiry |-> a.expiry,
                         vault |-> Vault(a.headers)]]]
  /\ UNCHANGED <<a, issued>>
  /\ concFrame

NextConc ==
  \E p \in Procs :
    \/ StartGetToken(p)
    \/ StartRefresh(p)
    \/ DoRequest(p)
    \/ StoreToken(p)
    \/ StoreHeader(p)
    \/ StoreExpiry(p)
    \/ StartLogout(p)
    \/ DoLogoutRequest(p)
    \/ ResetToken(p)
    \/ ResetHeader(p)
    \/ Observe(p)

SpecConc == Init /\ [][NextConc]_vars

(* ---------------------------- construction ----------------------------- *)
(* One call of NewAWSAuth(cerberusURL, region). A URL text is the sequence *)
(* of its parts: scheme, "://", host and, if any, path.                    *)

\* URL texts given as argument or found in CERBERUS_URL; <<>> is ""
URLTexts ==
  { <<>>,
    <<"https", "://", "test.example.com">>,
    <<"https", "://", "test.example.com", "/a/path">>,
    <<"test.example.com">>,
    <<"://", "test.example.com">> }

Regions == {"", "us-west-2"}

\* url.Parse: the text parses unless it starts with "://"; it is absolute
\* when it has a scheme
ParseURL(u) ==
  IF Len(u) > 0 /\ u[1] = "://"
    THEN [ok |-> FALSE, abs |-> FALSE, host |-> "", path |-> ""]
  ELSE IF Len(u) >= 3 /\ u[2] = "://"
    THEN [ok |-> TRUE, abs |-> TRUE, host |-> u[3],
          path |-> IF Len(u) >= 4 THEN u[4] ELSE ""]
  ELSE [ok |-> TRUE, abs |-> FALSE, host |-> "",
        path |-> IF Len(u) >= 1 THEN u[1] ELSE ""]

\* utils.ValidateURL: an absolute URL without a path, else an error
ValidateURL(u) ==
  LET q == ParseURL(u)
  IN [ok |-> q.ok /\ q.abs /\ q.host # "" /\ q.path = "", url |-> u]

NoInstance == [status |-> "error", instance |-> FALSE, baseURL |-> <<>>]

\* NewAWSAuth taking the argument even when CERBERUS_URL is set
NewAWSAuthResult_IgnoreEnv(cerberusURL, region, envURL, sessOk, nilSess, iamOk) ==
  LET u == cerberusURL
  IN IF region = "" THEN NoInstance
     ELSE IF Len(u) = 0 THEN NoInstance
     ELSE IF ~ValidateURL(u).ok THEN NoInstance
     ELSE IF ~sessOk THEN [NoInstance EXCEPT !.status = nilSess]
     ELSE IF ~iamOk THEN NoInstance
     ELSE [status |-> "ok", instance |-> TRUE, baseURL |-> ValidateURL(u).url]

\* NewAWSAuth: CERBERUS_URL overrides the argument; region and URL are
\* checked; the metadata client is built on the session before the session
\* error is looked at, which with a nil session panics or, if it does not,
\* ends in the error return for the session; the IAM info must be found
NewAWSAuthResult(cerberusURL, region, envURL, sessOk, nilSess, iamOk) ==
  LET u == IF envURL # <<>> THEN envURL ELSE cerberusURL
  IN IF region = "" THEN NoInstance
     ELSE IF Len(u) = 0 THEN NoInstance
     ELSE IF ~ValidateURL(u).ok THEN NoInstance
     ELSE IF ~sessOk THEN [NoInstance EXCEPT !.status = nilSess]
     ELSE IF ~iamOk THEN NoInstance
     ELSE [status |-> "ok", instance |-> TRUE, baseURL |-> ValidateURL(u).url]

\* the arguments and the environment of one call
CtorCalls ==
  {[pc |-> "call", cerberusURL |-> u, region |-> r, envURL |-> e,
    sessOk |-> so, nilSess |-> ns, iamOk |-> io, result |-> NoInstance] :
     u \in URLTexts, r \in Regions, e \in URLTexts, so \in BOOLEAN,
     ns \in {"panic", "error"}, io \in BOOLEAN}

InitNew ==
  /\ a = NewAWSAuth
  /\ now = 1
  /\ everGood = FALSE
  /\ last = NoCall
  /\ prev = [op |-> "other", httpCalls |-> 0]
  /\ gor = [p \in Procs |-> Idle]
  /\ issued = {}
  /\ ctor \in CtorCalls

Construct ==
  /\ ctor.pc = "call"
  /\ ctor' = [ctor EXCEPT
                !.pc = "done",
                !.result = NewAWSAuthResult(ctor.cerberusURL, ctor.region,
                                            ctor.envURL, ctor.sessOk,
                                            ctor.nilSess, ctor.iamOk)]
  /\ UNCHANGED <<a, now, everGood, last, prev, gor, issued>>

NextNew == Construct

SpecNew == InitNew /\ [][NextNew]_vars

(* ------------------------------ properties ----------------------------- *)

\* the last call found the instance live: token set and clock before expiry
PreLive == last.pre.token # "" /\ last.start < last.pre.expiry

\* the last call ran an authentication exchange
RanExchange == last.op \in {"GetToken", "Refresh"} /\ last.httpCalls = 1

\* C1: IsAuthenticated() is false right after construction, and whenever it
\* is true some earlier GetToken or Refresh completed a whole exchange (200,
\* decodable auth_data, successful decrypt, parseable envelope).
C1_AuthenticatedOnlyAfterGoodExchange ==
  /\ last.op = "none" => ~IsAuthenticated(a, now)
  /\ IsAuthenticated(a, now) => everGood

C1_Witness ==
  /\ IsAuthenticated(a, now)
  /\ everGood
  /\ last.op = "GetToken"
  /\ last.good
  /\ ~last.preGood

\* C2: a GetToken call that finds the token live returns the cached token
\* without an exchange and without changing token, expiry or headers; with a
\* GetToken that authenticated right before it, the two calls made one
\* round trip in total.
C2_LiveGetTokenIsCacheRead ==
  (last.op = "GetToken" /\ PreLive) =>
    /\ last.err = ErrNil
    /\ last.tok = last.pre.token
    /\ last.httpCalls = 0
    /\ last.decryptCalls = 0
    /\ a = last.pre
    /\ (prev.op = "GetToken" /\ prev.httpCalls = 1) =>
         prev.httpCalls + last.httpCalls = 1

C2_Witness ==
  /\ last.op = "GetToken"
  /\ PreLive
  /\ prev.op = "GetToken"
  /\ prev.httpCalls = 1
  /\ last.tok = "a-cool-token"

C4_FailedExchangeLeavesState ==
  (RanExchange /\ ~last.good) =>
    /\ last.err # ErrNil
    /\ a = last.pre

C4_Witness ==
  /\ RanExchange
  /\ last.err = ErrParseDecrypted
  /\ last.pre.token # ""
  /\ a = last.pre

\* C5: Logout on a live instance: answered with 204 it returns nil, clears
\* the token and removes X-Vault-Token; on any other status or a transport
\* failure it returns an error and leaves token and headers unchanged.
C5_LogoutOnAuthenticated ==
  (last.op = "Logout" /\ PreLive) =>
    IF last.status = 204
      THEN /\ last.err = ErrNil
           /\ a.token = ""
           /\ "X-Vault-Token" \notin DOMAIN a.headers
      ELSE /\ last.err # ErrNil
           /\ a.token = last.pre.token
           /\ a.headers = last.pre.headers

C5_Witness ==
  /\ last.op = "Logout"
  /\ PreLive
  /\ last.status = 204
  /\ "X-Vault-Token" \in DOMAIN last.pre.headers
  /\ "X-Vault-Token" \notin DOMAIN a.headers

\* C6: Logout on an instance that never authenticated returns
\* api.ErrorUnauthenticated and sends no request.
C6_LogoutNeverAuthenticated ==
  (last.op = "Logout" /\ ~last.preGood) =>
    /\ last.err = ErrorUnauthenticated
    /\ last.logoutCalls = 0

\* C7: Refresh on an instance that never authenticated returns
\* api.ErrorUnauthenticated.
C7_RefreshNeverAuthenticated ==
  (last.op = "Refresh" /\ ~last.preGood) => last.err = ErrorUnauthenticated

\* C8: an exchange answered with 401 or 403 returns exactly
\* api.ErrorUnauthorized without calling the decryptor; any other status
\* than 200 returns another, non-nil error.
C8_UnauthorizedIsExact ==
  RanExchange =>
    /\ last.status \in {401, 403} =>
         /\ last.err = ErrorUnauthorized
         /\ last.decryptCalls = 0
    /\ last.status \in {204, 500} =>
         /\ last.err # ErrNil
         /\ last.err # ErrorUnauthorized

C8_Witness ==
  /\ RanExchange
  /\ last.status = 403
  /\ last.err = ErrorUnauthorized

\* C9: after a GetToken on a non-live instance whose exchange succeeds, the
\* returned and the cached token are the envelope's client_token, the
\* X-Vault-Token header carries it, and expiry is the time of the update plus
\* the envelope's lease_duration.
C9_GetTokenStoresEnvelope ==
  (last.op = "GetToken" /\ ~PreLive /\ last.good) =>
    /\ last.tok = last.client_token
    /\ a.token = last.client_token
    /\ "X-Vault-Token" \in DOMAIN a.headers
    /\ a.headers["X-Vault-Token"] = <<last.client_token>>
    /\ a.expiry = last.end + last.lease_duration

C9_Witness ==
  /\ last.op = "GetToken"
  /\ ~PreLive
  /\ last.good
  /\ last.end > last.start
  /\ last.lease_duration > 0
  /\ last.pre.token \notin {"", a.token}

\* C10: IsAuthenticated answers true exactly when the token is non-empty and
\* the clock is strictly before expiry, so false when the clock equals
\* expiry, and it changes no state.
C10_StrictExpiry ==
  last.op = "IsAuthenticated" =>
    /\ last.ok <=> (last.pre.token # "" /\ last.start < last.pre.expiry)
    /\ (last.pre.token # "" /\ last.start = last.pre.expiry) => ~last.ok
    /\ a = last.pre
    /\ last.end = last.start

C10_Witness ==
  /\ last.op = "IsAuthenticated"
  /\ last.pre.token # ""
  /\ last.start = last.pre.expiry
  /\ ~last.ok

\* the last call found a token that had expired
PreExpired == last.pre.token # "" /\ last.start >= last.pre.expiry

C15_GetHeadersRequiresAuth ==
  last.op = "GetHeaders" =>
    IF PreLive
      THEN /\ last.err = ErrNil
           /\ "X-Vault-Token" \in DOMAIN last.hdrs
      ELSE /\ last.err = ErrorUnauthenticated
           /\ DOMAIN last.hdrs = {}

\* C16: a GetToken that returns a non-nil error returns the empty token,
\* whatever the state before the call.
C16_ErrorMeansEmptyToken ==
  (last.op = "GetToken" /\ last.err # ErrNil) => last.tok = ""

\* C18: a GetToken on a non-live instance or a Refresh is one attempt: at
\* most one request and one decrypt call, the decrypt call only after a 200
\* whose auth_data decoded, state written only after the plaintext parsed.
C18_SingleAttempt ==
  last.op \in {"GetToken", "Refresh"} =>
    /\ last.httpCalls <= 1
    /\ last.decryptCalls <= 1
    /\ last.decryptCalls = 1 => (last.httpCalls = 1 /\ last.dataOk)
    /\ a # last.pre => last.good

C18_Witness ==
  /\ last.op = "Refresh"
  /\ last.httpCalls = 1
  /\ last.decryptCalls = 1
  /\ last.err = ErrDecrypt

\* C19: with an expired token IsAuthenticated is false and GetToken runs the
\* exchange, while the headers carry the stale token until a successful
\* authentication overwrites it or a successful logout removes it.
C19_ExpiredBehavesUnauthenticated ==
  /\ (last.op = "IsAuthenticated" /\ PreExpired) => ~last.ok
  /\ (last.op = "GetToken" /\ PreExpired) => last.httpCalls = 1
  /\ (a.token # "" /\ now >= a.expiry) =>
       /\ "X-Vault-Token" \in DOMAIN a.headers
       /\ a.headers["X-Vault-Token"] = <<a.token>>
  /\ (last.op # "none" /\ PreExpired /\ a.headers # last.pre.headers) =>
       \/ last.op \in {"GetToken", "Refresh"} /\ last.good
       \/ last.op = "Logout" /\ last.status = 204

C19_Witness ==
  /\ last.op = "GetToken"
  /\ PreExpired
  /\ last.httpCalls = 1
  /\ last.err # ErrNil
  /\ a.headers["X-Vault-Token"] = <<last.pre.token>>

\* C20: in every state reached by GetToken, Refresh, Logout and GetHeaders
\* calls the headers hold X-Cerberus-Client with the value NewAWSAuth gave it.
C20_ClientHeaderAlways ==
  /\ "X-Cerberus-Client" \in DOMAIN a.headers
  /\ a.headers["X-Cerberus-Client"] = NewAWSAuth.headers["X-Cerberus-Client"]

C20_Witness ==
  /\ last.op = "Logout"
  /\ last.err = ErrNil
  /\ "X-Vault-Token" \in DOMAIN last.pre.headers
  /\ "X-Vault-Token" \notin DOMAIN a.headers
  /\ a.headers["X-Cerberus-Client"] = <<ClientHeader>>

\* goroutines between the start of an exchange and its last assignment
InExchange ==
  {p \in Procs : gor[p].pc \in {"request", "store_token", "store_header",
                                "store_expiry"}}

\* token, expiry and session header are those of no authentication (logged
\* out) or of one and the same complete authentication
Whole(tok, exp, vault) ==
  \/ tok = "" /\ vault = <<>>
  \/ /\ tok # ""
     /\ vault = <<tok>>
     /\ [token |-> tok, expiry |-> exp] \in issued

\* no goroutine is inside a call
AtRest == \A p \in Procs : gor[p].pc = "idle"

\* C11: at most one authentication exchange is in progress per instance,
\* also when two GetToken callers both find it not authenticated.
C11_SingleFlight == Cardinality(InExchange) <= 1

\* C12: no concurrent observer sees the token of one authentication with
\* the expiry of another, or one of token, expiry and session header
\* updated and the others not.
C12_AtomicTokenState ==
  \A p \in Procs :
    Whole(gor[p].seen.token, gor[p].seen.expiry, gor[p].seen.vault)

\* C13: when a Logout and a GetToken or Refresh of two goroutines have both
\* ended, the instance is fully logged out or fully authenticated, never a
\* mix such as an empty token with the session header still set.
C13_LogoutSerialOutcome ==
  (/\ AtRest
   /\ \E p, q \in Procs : /\ gor[p].op = "Logout"
                          /\ gor[q].op \in {"GetToken", "Refresh"}) =>
    Whole(a.token, a.expiry, Vault(a.headers))

\* the text is a syntactically valid absolute URL with an empty path
GoodEndpoint(u) ==
  /\ Len(u) = 3
  /\ u[1] = "https"
  /\ u[2] = "://"
  /\ u[3] # ""

C21_HeaderIffToken ==
  /\ "X-Vault-Token" \in DOMAIN a.headers <=> a.token # ""
  /\ "X-Vault-Token" \in DOMAIN a.headers =>
       a.headers["X-Vault-Token"] = <<a.token>>

\* C22 as claimed: after a GetToken that returns no error, IsAuthenticated()
\* at the same clock instant is true and the returned token is non-empty,
\* for every envelope, lease_duration 0 and empty client_token included.
C22_SuccessMeansLive ==
  (last.op = "GetToken" /\ last.err = ErrNil) =>
    /\ IsAuthenticated(a, last.end)
    /\ last.tok # ""

\* C22 amended: after a GetToken that returns no error the returned token is
\* the cached token; served from the cache, the token is non-empty and
\* IsAuthenticated() at the same instant is true; after an exchange, the
\* token is the envelope's client_token and IsAuthenticated() at the same
\* instant is true exactly when that client_token is non-empty and the
\* lease_duration is greater than 0.
C22_SuccessLiveIffLease ==
  (last.op = "GetToken" /\ last.err = ErrNil) =>
    /\ last.tok = a.token
    /\ last.httpCalls = 0 => (a.token # "" /\ last.end < a.expiry)
    /\ last.httpCalls = 1 =>
         /\ last.tok = last.client_token
         /\ (a.token # "" /\ last.end < a.expiry) <=>
              (last.client_token # "" /\ last.lease_duration > 0)

C22_Witness ==
  /\ last.op = "GetToken"
  /\ last.err = ErrNil
  /\ last.httpCalls = 1
  /\ last.client_token = "a-cool-token"
  /\ last.lease_duration = 0
  /\ last.tok = "a-cool-token"
  /\ ~IsAuthenticated(a, last.end)
====
